---- MODULE Spec2Model ----
(***************************************************************************)
(* Model of the GitLab merge-request review webhook (src/src/types.ts).    *)
(*                                                                         *)
(* One Express handler, POST /gitlab-webhook, checks a shared secret and   *)
(* an event-type header, filters on the merge request's lifecycle action,  *)
(* and then awaits performCodeReview, which chains three outbound calls    *)
(* (GitLab diff fetch, Gemini generateContent, GitLab note post) inside a  *)
(* single try/catch.  Each request is a small process whose position (pc)  *)
(* is one of the handler's suspension points; the synchronous code between *)
(* two suspension points is one atomic action, as on the Node event loop.  *)
(*                                                                         *)
(* JavaScript values are represented as follows:                           *)
(*   - a string-or-undefined value is a TLA+ string, with Undefined        *)
(*     standing for the JS value undefined;                                *)
(*   - an optional object/number/text is a sequence of length 0 (absent,   *)
(*     i.e. undefined) or 1 (present);                                     *)
(*   - texts that are trimmed or spliced are sequences of 1-char strings.  *)
(***************************************************************************)
EXTENDS Integers, Sequences, FiniteSets, TLC

\* ---------------------------------------------------------------- bounds
NumDeliveries == 2      \* concurrent deliveries of one payload under SpecDup
MaxTextLen == 1         \* longest Gemini completion drawn

\* ------------------------------------------------------------ JS values
Undefined == "<undefined>"

None == <<>>
Some(x) == <<x>>

\* JS truthiness of a string-or-undefined value: !v
Falsy(v) == v = Undefined \/ v = ""

\* `${v}` for a string-or-undefined value
TemplateStr(v) == IF v = Undefined THEN "undefined" ELSE v

DigitStr(d) == CASE d = 0 -> "0" [] d = 1 -> "1" [] d = 2 -> "2" [] d = 3 -> "3"
                 [] d = 4 -> "4" [] d = 5 -> "5" [] d = 6 -> "6" [] d = 7 -> "7"
                 [] d = 8 -> "8" [] d = 9 -> "9"

RECURSIVE NumToStr(_)
NumToStr(n) == IF n < 10 THEN DigitStr(n) ELSE NumToStr(n \div 10) \o DigitStr(n % 10)

\* `${n}` for a number-or-undefined value
TemplateNum(n) == IF n = None THEN "undefined" ELSE NumToStr(n[1])

\* ------------------------------------------------------- request inputs
MR_HOOK == "Merge Request Hook"

TokenHeaders == {Undefined, "", "s3cret", "wrong"}
EventHeaders == {Undefined, MR_HOOK, "Push Hook"}
Actions == {"open", "update", "close", "merge", "reopen", Undefined}

\* outcomes of the outbound calls
Whitespace == {" "}
Alphabet == Whitespace \cup {"k"}
Texts == UNION {[1..n -> Alphabet] : n \in 0..MaxTextLen}
\* an outcome is a record: ok = the awaited promise resolved (it rejected
\* otherwise), text = the text field of a resolved Gemini response
Rejected == [ok |-> FALSE, text |-> None]
Resolved == [ok |-> TRUE, text |-> None]
HttpOutcomes == {Resolved, Rejected}
GeminiResponses == {Rejected, Resolved} \cup {[ok |-> TRUE, text |-> Some(t)] : t \in Texts}
\* what Express does with the rejected promise of an async handler: version 4
\* leaves the request without a response, version 5 answers through the
\* default error handler
RejectionOutcomes == {"no-response", "500"}
Iids == {None, Some(7)}
ProjectIds == {None, Some(42)}

ObjectAttributes == {None} \cup {Some([action |-> a, iid |-> i]) : a \in Actions, i \in Iids}
Projects == {None} \cup {Some([id |-> i]) : i \in ProjectIds}
Bodies == [object_attributes : ObjectAttributes, project : Projects]

Requests == [token : TokenHeaders, event : EventHeaders, body : Bodies]

NoRequest == [token |-> Undefined, event |-> Undefined,
              body |-> [object_attributes |-> None, project |-> None]]

\* GITLAB_WEBHOOK_SECRET, GITLAB_PAT, GITLAB_URL: the configuration read from
\*   the environment at startup (Undefined when the variable is not set)
\* pc[r]:        where the handler of request r stands: "idle" (not arrived),
\*              "awaitDiff", "awaitLLM", "awaitPost" (suspended on that call),
\*              "reviewReturned" (performCodeReview settled, handler not yet
\*              resumed), "done" (handler ended)
\* req[r]:       the headers and parsed JSON body of request r
\* responses[r]: the statuses sent on res, in order
\* calls[r]:     the outbound calls issued for r, in order
\* returned[r]:  the outcomes of the calls of r that have settled, in order
\* log[r]:       the console lines written for r
\* escaped[r]:   an exception left the handler of r
VARIABLES GITLAB_WEBHOOK_SECRET, GITLAB_PAT, GITLAB_URL,
          pc, req, responses, calls, returned, log, escaped

config == <<GITLAB_WEBHOOK_SECRET, GITLAB_PAT, GITLAB_URL>>
vars == <<GITLAB_WEBHOOK_SECRET, GITLAB_PAT, GITLAB_URL,
          pc, req, responses, calls, returned, log, escaped>>

Reqs == DOMAIN pc

\* ------------------------------------------------------- pure helpers
RECURSIVE TrimStart(_)
TrimStart(t) == IF t # <<>> /\ Head(t) \in Whitespace THEN TrimStart(Tail(t)) ELSE t

RECURSIVE TrimEnd(_)
TrimEnd(t) == IF t # <<>> /\ t[Len(t)] \in Whitespace
              THEN TrimEnd(SubSeq(t, 1, Len(t) - 1)) ELSE t

\* String.prototype.trim
Trim(t) == TrimEnd(TrimStart(t))

UndefinedChars == <<"u", "n", "d", "e", "f", "i", "n", "e", "d">>

\* `${reviewText}` for a text-or-undefined value
TemplateText(t) == IF t = None THEN UndefinedChars ELSE t[1]

\* the attribution banner that opens every comment (its leading emoji left out)
Banner == "**AI Code Review (Powered by Gemini)**\n\n"

\* geminiResponse?.text?.trim()
ReviewText(geminiResponse) ==
    IF geminiResponse.text = None THEN None ELSE Some(Trim(geminiResponse.text[1]))

\* commentBody.body
CommentBody(reviewText) == <<Banner>> \o TemplateText(reviewText)

\* the locals the handler extracts from the payload
ProjectId(q) == q.body.project[1].id
MergeRequestId(q) == q.body.object_attributes[1].iid

DiffUrl(q) == TemplateStr(GITLAB_URL) \o "/projects/" \o TemplateNum(ProjectId(q))
              \o "/merge_requests/" \o TemplateNum(MergeRequestId(q)) \o "/changes"

PostCommentUrl(projectId, mergeRequestId) ==
    TemplateStr(GITLAB_URL) \o "/projects/" \o TemplateNum(projectId)
    \o "/merge_requests/" \o TemplateNum(mergeRequestId) \o "/notes"

GEMINI_MODEL == "gemini-2.5-flash"

\* the outbound calls; the prompt is the fixed template around the fetched
\* diff and is kept opaque
DiffFetchCall(diffUrl) == [kind |-> "diff-fetch", url |-> diffUrl, data |-> <<>>]
LLMCall == [kind |-> "llm-invoke", url |-> GEMINI_MODEL, data |-> <<"prompt">>]
CommentPostCall(url, body) == [kind |-> "comment-post", url |-> url, data |-> body]

\* --------------------------------------------------------- the gate
\* mutant: the truthiness test on the header is dropped
UnauthorizedNoTruthiness(token) == token # GITLAB_WEBHOOK_SECRET

\* if (!gitlabToken || gitlabToken !== GITLAB_WEBHOOK_SECRET)
Unauthorized(token) == Falsy(token) \/ token # GITLAB_WEBHOOK_SECRET

\* mutant: a request without the event header is let through
NotMergeRequestHookIfPresent(event) == event # Undefined /\ event # MR_HOOK

\* if (event !== 'Merge Request Hook')
NotMergeRequestHook(event) == event # MR_HOOK

\* mutant: a deny-list of the two other documented actions
ActionIgnoredDenyList(action) == action = "close" \/ action = "merge"

\* if (action !== 'open' && action !== 'update')
ActionIgnored(action) == action # "open" /\ action # "update"

\* mutant: && in place of ||
CredentialsMissingBoth == Falsy(GITLAB_PAT) /\ Falsy(GITLAB_URL)

\* if (!GITLAB_PAT || !GITLAB_URL)
CredentialsMissing == Falsy(GITLAB_PAT) \/ Falsy(GITLAB_URL)

\* mutant: the rejection is swallowed and the chain goes on
AbortsNever(outcome) == FALSE

\* an awaited call that rejects transfers control to the catch block
Aborts(outcome) == ~outcome.ok

\* mutant: the await is missing, the review runs in the background
ReviewStarted(r) == pc[r] \in {"awaitDiff", "awaitLLM", "awaitPost", "reviewReturned"}

\* await performCodeReview(...): the handler resumes once the promise settled
ReviewSettled(r) == pc[r] = "reviewReturned"

\* ------------------------------------------------------------ actions
\* the process after startup: the configuration is read once from the
\* environment, and no request in R has arrived yet
InitWith(R) ==
    /\ GITLAB_WEBHOOK_SECRET \in {Undefined, "", "s3cret"}
    /\ GITLAB_PAT \in {Undefined, "", "glpat"}
    /\ GITLAB_URL \in {Undefined, "", "https://gitlab.example/api/v4"}
    /\ pc = [r \in R |-> "idle"]
    /\ req = [r \in R |-> NoRequest]
    /\ responses = [r \in R |-> <<>>]
    /\ calls = [r \in R |-> <<>>]
    /\ returned = [r \in R |-> <<>>]
    /\ log = [r \in R |-> <<>>]
    /\ escaped = [r \in R |-> FALSE]

\* Spec follows one request through the handler, for every combination of
\* configuration, headers, body and outcomes of the outbound calls
Init == InitWith({"request"})

\* return res.status(s).send(...), after an optional console line
Respond(r, q, s, lines) ==
    /\ pc' = [pc EXCEPT ![r] = "done"]
    /\ req' = [req EXCEPT ![r] = q]
    /\ responses' = [responses EXCEPT ![r] = Append(@, s)]
    /\ log' = [log EXCEPT ![r] = @ \o lines]
    /\ UNCHANGED <<config, calls, returned, escaped>>

\* a TypeError thrown in the async handler rejects its promise
Throw(r, q, onReject) ==
    /\ pc' = [pc EXCEPT ![r] = "done"]
    /\ req' = [req EXCEPT ![r] = q]
    /\ escaped' = [escaped EXCEPT ![r] = TRUE]
    /\ responses' = [responses EXCEPT ![r] = IF onReject = "500" THEN Append(@, 500) ELSE @]
    /\ UNCHANGED <<config, calls, returned, log>>

\* performCodeReview up to its first suspension point
StartReview(r, q) ==
    /\ req' = [req EXCEPT ![r] = q]
    /\ IF CredentialsMissing
       THEN /\ pc' = [pc EXCEPT ![r] = "reviewReturned"]
            /\ log' = [log EXCEPT ![r] = @ \o <<"log:received", "error:no-credentials">>]
            /\ UNCHANGED calls
       ELSE /\ pc' = [pc EXCEPT ![r] = "awaitDiff"]
            /\ log' = [log EXCEPT ![r] = @ \o <<"log:received">>]
            /\ calls' = [calls EXCEPT ![r] = Append(@, DiffFetchCall(DiffUrl(q)))]
    /\ UNCHANGED <<config, responses, returned, escaped>>

\* the handler from the arrival of request q to its first suspension point
HandleRequest(r, q, onReject) ==
    IF Unauthorized(q.token)
    THEN Respond(r, q, 401, <<"warn:invalid-secret">>)
    ELSE IF NotMergeRequestHook(q.event)
    THEN Respond(r, q, 200, <<>>)
    ELSE IF q.body.object_attributes = None
    THEN Throw(r, q, onReject)
    ELSE IF ActionIgnored(q.body.object_attributes[1].action)
    THEN Respond(r, q, 200, <<>>)
    ELSE IF q.body.project = None
    THEN Throw(r, q, onReject)
    ELSE StartReview(r, q)

\* mutant: a payload already seen on another request is acknowledged and dropped
DeliverDeduplicated(r, q, onReject) ==
    /\ pc[r] = "idle"
    /\ IF \E s \in Reqs : s # r /\ pc[s] # "idle" /\ req[s] = q
       THEN Respond(r, q, 200, <<>>)
       ELSE HandleRequest(r, q, onReject)

Deliver(r, q, onReject) ==
    /\ pc[r] = "idle"
    /\ HandleRequest(r, q, onReject)

\* the catch block of performCodeReview
Catch(r, outcome) ==
    /\ pc' = [pc EXCEPT ![r] = "reviewReturned"]
    /\ returned' = [returned EXCEPT ![r] = Append(@, outcome)]
    /\ log' = [log EXCEPT ![r] = Append(@, "error:review-failed")]
    /\ UNCHANGED <<config, req, responses, calls, escaped>>

\* axios.get settles: build the prompt and call Gemini
DiffReturns(r, outcome) ==
    /\ pc[r] = "awaitDiff"
    /\ IF Aborts(outcome)
       THEN Catch(r, outcome)
       ELSE /\ pc' = [pc EXCEPT ![r] = "awaitLLM"]
            /\ returned' = [returned EXCEPT ![r] = Append(@, outcome)]
            /\ log' = [log EXCEPT ![r] = Append(@, "log:sending")]
            /\ calls' = [calls EXCEPT ![r] = Append(@, LLMCall)]
            /\ UNCHANGED <<config, req, responses, escaped>>

\* generateContent settles: trim the text and post the comment
LLMReturns(r, outcome) ==
    /\ pc[r] = "awaitLLM"
    /\ IF Aborts(outcome)
       THEN Catch(r, outcome)
       ELSE /\ pc' = [pc EXCEPT ![r] = "awaitPost"]
            /\ returned' = [returned EXCEPT ![r] = Append(@, outcome)]
            /\ calls' = [calls EXCEPT ![r] = Append(@,
                 CommentPostCall(PostCommentUrl(ProjectId(req[r]), MergeRequestId(req[r])),
                                 CommentBody(ReviewText(outcome))))]
            /\ UNCHANGED <<config, req, responses, log, escaped>>

\* axios.post settles
PostReturns(r, outcome) ==
    /\ pc[r] = "awaitPost"
    /\ IF Aborts(outcome)
       THEN Catch(r, outcome)
       ELSE /\ pc' = [pc EXCEPT ![r] = "reviewReturned"]
            /\ returned' = [returned EXCEPT ![r] = Append(@, outcome)]
            /\ log' = [log EXCEPT ![r] = Append(@, "log:posted")]
            /\ UNCHANGED <<config, req, responses, calls, escaped>>

\* res.status(202).send(...)
Respond202(r) ==
    /\ ReviewSettled(r)
    /\ pc' = [pc EXCEPT ![r] = "done"]
    /\ responses' = [responses EXCEPT ![r] = Append(@, 202)]
    /\ UNCHANGED <<config, req, calls, returned, log, escaped>>

Next ==
    \/ \E r \in Reqs, q \in Requests, onReject \in RejectionOutcomes : Deliver(r, q, onReject)
    \/ \E r \in Reqs, outcome \in HttpOutcomes : DiffReturns(r, outcome)
    \/ \E r \in Reqs, outcome \in GeminiResponses : LLMReturns(r, outcome)
    \/ \E r \in Reqs, outcome \in HttpOutcomes : PostReturns(r, outcome)
    \/ \E r \in Reqs : Respond202(r)

Spec == Init /\ [][Next]_vars

\* SpecDup delivers one gate-passing payload NumDeliveries times; the handlers
\* interleave freely at their suspension points
InitDup == InitWith(1..NumDeliveries)

DupPayloads ==
    {q \in Requests : /\ q.token = "s3cret"
                      /\ q.event = MR_HOOK
                      /\ q.body.object_attributes # None
                      /\ q.body.object_attributes[1].action \in {"open", "update"}
                      /\ q.body.object_attributes[1].iid # None
                      /\ q.body.project # None
                      /\ q.body.project[1].id # None}

DeliverDup(r, q, onReject) ==
    /\ \A s \in Reqs : pc[s] # "idle" => req[s] = q
    /\ Deliver(r, q, onReject)

NextDup ==
    \/ \E r \in Reqs, q \in DupPayloads, onReject \in RejectionOutcomes : DeliverDup(r, q, onReject)
    \/ \E r \in Reqs, outcome \in HttpOutcomes : DiffReturns(r, outcome)
    \/ \E r \in Reqs, outcome \in GeminiResponses : LLMReturns(r, outcome)
    \/ \E r \in Reqs, outcome \in HttpOutcomes : PostReturns(r, outcome)
    \/ \E r \in Reqs : Respond202(r)

SpecDup == InitDup /\ [][NextDup]_vars

\* ======================================================== properties
\* vocabulary of the claims
Handled(r) == pc[r] # "idle"
Unset(v) == v \in {Undefined, ""}
\* the header is there (not absent, not empty) and equals the configured secret
ValidSecret(q) == ~Unset(q.token) /\ q.token = GITLAB_WEBHOOK_SECRET
HasAction(q) == q.body.object_attributes # None
ActionOf(q) == q.body.object_attributes[1].action
Kinds(r) == [i \in 1..Len(calls[r]) |-> calls[r][i].kind]
NoOutboundCall(r) == calls[r] = <<>>
NotConfigured == Unset(GITLAB_PAT) \/ Unset(GITLAB_URL)

\* C1: a request whose secret header is missing or differs from the configured
\* secret (the configured secret may itself be unset) is answered 401, whatever
\* its event header and body, and issues no outbound call.
C1_BadSecretIs401 ==
    \A r \in Reqs :
        Handled(r) /\ ~ValidSecret(req[r]) => responses[r] = <<401>> /\ NoOutboundCall(r)

\* C1 witness: header and configured secret both absent, on an otherwise
\* reviewable merge-request event
C1_Witness ==
    \E r \in Reqs :
        /\ pc[r] = "done" /\ responses[r] = <<401>>
        /\ GITLAB_WEBHOOK_SECRET = Undefined /\ req[r].token = Undefined
        /\ req[r].event = MR_HOOK /\ HasAction(req[r]) /\ ActionOf(req[r]) = "open"

\* C2: a request with a valid secret whose event header is not
\* 'Merge Request Hook' (or is absent) is answered 200, whatever its body, and
\* issues no outbound call.
C2_OtherEventIs200 ==
    \A r \in Reqs :
        Handled(r) /\ ValidSecret(req[r]) /\ req[r].event # MR_HOOK
            => responses[r] = <<200>> /\ NoOutboundCall(r)

\* C2 witness: valid secret, no event header, a body that would be reviewed
C2_Witness ==
    \E r \in Reqs :
        /\ pc[r] = "done" /\ responses[r] = <<200>>
        /\ ValidSecret(req[r]) /\ req[r].event = Undefined
        /\ HasAction(req[r]) /\ ActionOf(req[r]) = "open" /\ req[r].body.project # None

\* C3: a merge-request event with a valid secret whose action is any value
\* outside {open, update} (close, merge, another string, or no action field) is
\* answered 200 and issues no outbound call.
C3_OtherActionIs200 ==
    \A r \in Reqs :
        /\ Handled(r) /\ ValidSecret(req[r]) /\ req[r].event = MR_HOOK
        /\ HasAction(req[r]) /\ ActionOf(req[r]) \notin {"open", "update"}
        => responses[r] = <<200>> /\ NoOutboundCall(r)

\* C3 witness: an action outside the four documented ones
C3_Witness ==
    \E r \in Reqs :
        /\ pc[r] = "done" /\ responses[r] = <<200>>
        /\ ValidSecret(req[r]) /\ req[r].event = MR_HOOK
        /\ HasAction(req[r]) /\ ActionOf(req[r]) = "reopen"
        /\ GITLAB_PAT # Undefined /\ GITLAB_URL # Undefined


GatePassing(q) ==
    /\ ValidSecret(q) /\ q.event = MR_HOOK
    /\ HasAction(q) /\ ActionOf(q) \in {"open", "update"}
PipelineEntered(r) == Handled(r) /\ GatePassing(req[r]) /\ req[r].body.project # None
StepOrder == <<"diff-fetch", "llm-invoke", "comment-post">>
IsPrefix(s, t) == Len(s) <= Len(t) /\ s = SubSeq(t, 1, Len(s))
Succeeded(r, i) == Len(returned[r]) >= i /\ returned[r][i].ok
Failed(r, i) == Len(returned[r]) >= i /\ ~returned[r][i].ok
Count(r, kind) == Cardinality({i \in 1..Len(calls[r]) : calls[r][i].kind = kind})
Finished(r) == pc[r] = "done"
HasProjectId(q) == q.body.project # None /\ q.body.project[1].id # None
HasIid(q) == q.body.object_attributes # None /\ q.body.object_attributes[1].iid # None
WellFormed(q) == HasProjectId(q) /\ HasIid(q)

\* C4 as stated: every gate-passing request issues exactly one diff fetch and
\* exactly one LLM call, and one comment post when both succeeded (read on
\* the finished requests whose event carries both identifiers).
C4_Original ==
    \A r \in Reqs :
        Finished(r) /\ GatePassing(req[r]) /\ WellFormed(req[r])
            => /\ Count(r, "diff-fetch") = 1
               /\ Count(r, "llm-invoke") = 1
               /\ (Succeeded(r, 1) /\ Succeeded(r, 2) => Count(r, "comment-post") = 1)

\* C4 amended: the calls of a request are always an initial part of
\* diff fetch, LLM call, comment post (that order, none twice); a call is
\* issued only after every earlier one has returned successfully; and once the
\* pipeline of a gate-passing request has run, the diff fetch was issued
\* exactly when token and base URL are configured, the LLM call exactly when
\* moreover the diff fetch succeeded, and the comment post exactly when
\* moreover the LLM call succeeded.
C4_SequentialChain ==
    \A r \in Reqs :
        /\ IsPrefix(Kinds(r), StepOrder)
        /\ Len(returned[r]) <= Len(calls[r])
        /\ \A i \in 1..(Len(calls[r]) - 1) : Succeeded(r, i)
        /\ Finished(r) /\ PipelineEntered(r) =>
              /\ Count(r, "diff-fetch") = (IF ~NotConfigured THEN 1 ELSE 0)
              /\ Count(r, "llm-invoke") =
                    (IF ~NotConfigured /\ Succeeded(r, 1) THEN 1 ELSE 0)
              /\ Count(r, "comment-post") =
                    (IF ~NotConfigured /\ Succeeded(r, 1) /\ Succeeded(r, 2) THEN 1 ELSE 0)

\* C4 witness: all three calls issued and returned, and the 202 sent
C4_Witness ==
    \E r \in Reqs :
        /\ Finished(r) /\ GatePassing(req[r]) /\ Kinds(r) = StepOrder
        /\ \A i \in 1..3 : Succeeded(r, i)
        /\ responses[r] = <<202>>

\* C5: when the pipeline of a gate-passing request aborts (token or base URL
\* not configured, or a failed diff fetch, LLM call or comment post) no later
\* outbound step is issued, no error escapes, and the handler responds 202.
Aborted(r) ==
    \/ PipelineEntered(r) /\ NotConfigured
    \/ \E i \in 1..Len(returned[r]) : Failed(r, i)

C5_AbortIsSilent ==
    \A r \in Reqs :
        /\ PipelineEntered(r) /\ NotConfigured => NoOutboundCall(r)
        /\ \A i \in 1..Len(returned[r]) : Failed(r, i) => Len(calls[r]) = i
        /\ Aborted(r) =>
              /\ ~escaped[r]
              /\ pc[r] \in {"reviewReturned", "done"}
              /\ pc[r] = "reviewReturned" => responses[r] = <<>> /\ ENABLED Respond202(r)
              /\ pc[r] = "done" => responses[r] = <<202>>

\* C5 witness: a failed diff fetch, answered 202 with nothing issued after it
C5_Witness ==
    \E r \in Reqs :
        /\ Finished(r) /\ Failed(r, 1) /\ Kinds(r) = <<"diff-fetch">>
        /\ responses[r] = <<202>>

\* C6 as stated: after an LLM call that succeeds with an empty or absent
\* completion the comment is posted exactly once, and its body is the
\* attribution banner followed by empty review text (read on the events that
\* carry both identifiers).
EmptyOrAbsent(text) == text = None \/ Trim(text[1]) = <<>>

C6_Original ==
    \A r \in Reqs :
        WellFormed(req[r]) /\ Succeeded(r, 2) /\ EmptyOrAbsent(returned[r][2].text)
            => /\ Count(r, "comment-post") = 1
               /\ calls[r][3].data = <<Banner>>

\* C8: the 202 of a request is sent only after its pipeline has finished:
\* when it is sent every call the request issued has returned, and the
\* pipeline has either posted the comment or aborted.
PipelineOver(r) ==
    /\ log[r] # <<>>
    /\ log[r][Len(log[r])] \in {"log:posted", "error:review-failed", "error:no-credentials"}

OwnCalls(q) ==
    <<DiffFetchCall(DiffUrl(q)), LLMCall,
      CommentPostCall(PostCommentUrl(ProjectId(q), MergeRequestId(q)), <<>>)>>
Successes(r) == Cardinality({i \in 1..Len(returned[r]) : returned[r][i].ok})
OwnLength(r) == IF NotConfigured THEN 0 ELSE IF Successes(r) >= 2 THEN 3 ELSE 1 + Successes(r)
AllSucceeded(r) == \A i \in 1..3 : Succeeded(r, i)

RECURSIVE Comments(_)
Comments(R) ==
    IF R = {} THEN 0
    ELSE LET r == CHOOSE x \in R : TRUE IN Count(r, "comment-post") + Comments(R \ {r})

C7_IndependentDeliveries ==
    /\ \A r \in Reqs :
          Finished(r) /\ GatePassing(req[r]) =>
            /\ responses[r] = <<202>>
            /\ Len(calls[r]) = OwnLength(r)
            /\ \A i \in 1..Len(calls[r]) :
                  /\ calls[r][i].kind = OwnCalls(req[r])[i].kind
                  /\ calls[r][i].url = OwnCalls(req[r])[i].url
            /\ AllSucceeded(r) => Count(r, "comment-post") = 1
    /\ (\A r \in Reqs : Finished(r) /\ AllSucceeded(r)) => Comments(Reqs) = Cardinality(Reqs)

\* C7 witness: every delivery of the one payload has posted its comment
C7_Witness ==
    /\ Cardinality(Reqs) >= 2
    /\ \A r \in Reqs : Finished(r) /\ GatePassing(req[r]) /\ AllSucceeded(r)
    /\ \A r, s \in Reqs : req[r] = req[s]
    /\ Comments(Reqs) = Cardinality(Reqs)

\* C9 as stated: every diff fetch and every comment post is addressed with
\* the project.id and object_attributes.iid of the triggering event, and a
\* gate-passing event lacking either identifier never leads to a diff fetch
\* or a comment post.
AddressOf(q, leaf) ==
    GITLAB_URL \o "/projects/" \o NumToStr(q.body.project[1].id[1])
    \o "/merge_requests/" \o NumToStr(q.body.object_attributes[1].iid[1]) \o leaf

C9_Original ==
    \A r \in Reqs :
        /\ Handled(r) /\ GatePassing(req[r]) /\ ~WellFormed(req[r])
              => Count(r, "diff-fetch") = 0 /\ Count(r, "comment-post") = 0
        /\ WellFormed(req[r]) =>
              \A i \in 1..Len(calls[r]) :
                  /\ calls[r][i].kind = "diff-fetch" => calls[r][i].url = AddressOf(req[r], "/changes")
                  /\ calls[r][i].kind = "comment-post" => calls[r][i].url = AddressOf(req[r], "/notes")

\* C10 as stated: no exception escapes the handler, no request gets more than
\* one response, and a request whose handler has ended got exactly one, with
\* status 401, 200 or 202.
C10_Original ==
    \A r \in Reqs :
        /\ ~escaped[r]
        /\ Len(responses[r]) <= 1
        /\ Finished(r) => Len(responses[r]) = 1 /\ responses[r][1] \in {401, 200, 202}

====
